---- MODULE Spec2Model ----
(***************************************************************************)
(* A model of uhttpd's file.c: the path resolver (canonpath,               *)
(* uh_path_lookup), the entity tag and the conditional-request checks, the *)
(* dispatch registry, the top-level request entry point and the streaming  *)
(* file transfer.                                                          *)
(*                                                                         *)
(* C strings are sequences of character codes (ASCII), without the         *)
(* terminating NUL; At(s, k) reads the byte at 0-based offset k and gives  *)
(* 0 at the terminator.                                                    *)
(***************************************************************************)
EXTENDS Integers, Sequences, FiniteSets, TLC

\* ------------------------------------------------------------------ bounds

\* Longest request URL of the path specification, in units of UrlUnits.
MaxUrlUnits == 4

\* ----------------------------------------------------------- characters

\* The ASCII codes of the characters the model writes.
c == [sl |-> 47, dot |-> 46, pct |-> 37, qm |-> 63, star |-> 42, quo |-> 34,
      dash |-> 45, sp |-> 32, comma |-> 44, d0 |-> 48, d2 |-> 50, d9 |-> 57,
      A |-> 65, F |-> 70, a |-> 97, e |-> 101, f |-> 102, i |-> 105,
      r |-> 114, v |-> 118, Z |-> 90, b |-> 98, t |-> 116, x |-> 120]

\* The byte at 0-based offset k of the C string s (0: its terminator).
At(s, k) == IF k >= 0 /\ k < Len(s) THEN s[k + 1] ELSE 0

\* s without its first n bytes (the C string at s + n).
Drop(s, n) == IF n >= Len(s) THEN <<>> ELSE SubSeq(s, n + 1, Len(s))

\* The first n bytes of s.
Take(s, n) == IF n >= Len(s) THEN s ELSE SubSeq(s, 1, n)

\* strchr(s, ch) as a 0-based offset, -1 for NULL.
StrChr(s, ch) ==
    IF \E k \in 1..Len(s) : s[k] = ch
    THEN (CHOOSE k \in 1..Len(s) : s[k] = ch /\ \A j \in 1..(k - 1) : s[j] # ch) - 1
    ELSE -1

\* strncmp(s, t, n) = 0
StrNEq(s, t, n) == \A k \in 0..(n - 1) : At(s, k) = At(t, k)

Min(x, y) == IF x <= y THEN x ELSE y

\* ------------------------------------------------------ program constants

PATH_MAX == 4096
UH_BUF_SIZE == 4096

\* ---------------------------------------------------------- file system

(* The file system the server runs on: the document roots /r and /r/a, a   *)
(* readable file /r/e, a file /r/f without the read-by-others bit, an      *)
(* index file /r/a/i, and entries outside the roots (/a, /ra) that a       *)
(* lookup must never reach.                                                *)
FS == {
  [path |-> <<c.sl>>,                       type |-> "dir", oread |-> TRUE,  ino |-> 2,  size |-> 0, mtime |-> 1],
  [path |-> <<c.sl, c.a>>,                  type |-> "reg", oread |-> TRUE,  ino |-> 3,  size |-> 1, mtime |-> 1],
  [path |-> <<c.sl, c.r, c.a>>,             type |-> "reg", oread |-> TRUE,  ino |-> 4,  size |-> 1, mtime |-> 1],
  [path |-> <<c.sl, c.r>>,                  type |-> "dir", oread |-> TRUE,  ino |-> 5,  size |-> 0, mtime |-> 1],
  [path |-> <<c.sl, c.r, c.sl, c.a>>,       type |-> "dir", oread |-> TRUE,  ino |-> 6,  size |-> 0, mtime |-> 1],
  [path |-> <<c.sl, c.r, c.sl, c.e>>,       type |-> "reg", oread |-> TRUE,  ino |-> 17, size |-> 3, mtime |-> 1],
  [path |-> <<c.sl, c.r, c.sl, c.f>>,       type |-> "reg", oread |-> FALSE, ino |-> 18, size |-> 1, mtime |-> 1],
  [path |-> <<c.sl, c.r, c.sl, c.a, c.sl, c.i>>, type |-> "reg", oread |-> TRUE, ino |-> 19, size |-> 1, mtime |-> 1],
  [path |-> <<c.sl, c.r, c.sl, c.a, c.sl, c.e>>, type |-> "reg", oread |-> TRUE, ino |-> 20, size |-> 0, mtime |-> 1],
  [path |-> <<c.sl, c.r, c.sl, c.b>>,       type |-> "dir", oread |-> FALSE, ino |-> 21, size |-> 0, mtime |-> 1] }

NoStat == [path |-> <<>>, type |-> "none", oread |-> FALSE, ino |-> 0, size |-> 0, mtime |-> 0]

\* stat(2): the entry at path, or failure.
stat(path) ==
    IF \E x \in FS : x.path = path
    THEN [ok |-> TRUE, st |-> CHOOSE x \in FS : x.path = path]
    ELSE [ok |-> FALSE, st |-> NoStat]

\* ------------------------------------------------------------ urldecode

IsXDigit(x) == (x >= 48 /\ x <= 57) \/ (x >= 65 /\ x <= 70) \/ (x >= 97 /\ x <= 102)

\* The hex macro of uh_urldecode.
hex(x) == IF x <= c.d9 THEN x - c.d0 ELSE IF x <= c.F THEN x - c.A + 10 ELSE x - c.a + 10

RECURSIVE urldecode_loop(_, _, _, _)
urldecode_loop(src, k, out, blen) ==
    IF k >= Len(src) THEN [rv |-> Len(out), buf |-> out]
    ELSE IF Len(out) >= blen THEN [rv |-> -1, buf |-> out]
    ELSE IF At(src, k) # c.pct THEN urldecode_loop(src, k + 1, Append(out, At(src, k)), blen)
    ELSE IF k + 2 >= Len(src) \/ ~IsXDigit(At(src, k + 1)) \/ ~IsXDigit(At(src, k + 2))
         THEN [rv |-> -2, buf |-> out]
    ELSE IF 16 * hex(At(src, k + 1)) + hex(At(src, k + 2)) = 0
         THEN [rv |-> -2, buf |-> out]
    ELSE urldecode_loop(src, k + 3,
                        Append(out, 16 * hex(At(src, k + 1)) + hex(At(src, k + 2))), blen)

(* uh_urldecode(buf, blen, src, slen): percent-decodes src; a negative rv   *)
(* is a failure (an escape that is not % and two hex digits, an escape of  *)
(* NUL, or a result longer than blen).                                     *)
uh_urldecode(src, blen) == urldecode_loop(src, 0, <<>>, blen)

\* ------------------------------------------------------------ canonpath

\* while ((path_res > path_resolved) && (*--path_res != '/')); the result
\* is cut before its last '/', or emptied when it has none.
PopSegment(res) ==
    IF \E k \in 1..Len(res) : res[k] = c.sl
    THEN Take(res, (CHOOSE k \in 1..Len(res) :
                        res[k] = c.sl /\ \A j \in (k + 1)..Len(res) : res[j] # c.sl) - 1)
    ELSE <<>>

(* Where the run of characters other than '/' that starts at offset k ends: *)
(* at the next '/', at the terminator, or where the loop stops reading.     *)
RunEnd(path, k) ==
    CHOOSE e \in (k + 1)..Min(Len(path), PATH_MAX - 2) :
        /\ e = Min(Len(path), PATH_MAX - 2) \/ At(path, e) = c.sl
        /\ \A j \in (k + 1)..(e - 1) : At(path, j) # c.sl

(* The "normalize" loop of canonpath from offset k on, res being what is    *)
(* written so far; a run of ordinary characters is copied in one step.      *)
RECURSIVE canon_loop(_, _, _)
canon_loop(path, k, res) ==
    IF At(path, k) = 0 \/ k >= PATH_MAX - 2 THEN res
    ELSE IF At(path, k) # c.sl
         THEN canon_loop(path, RunEnd(path, k), res \o SubSeq(path, k + 1, RunEnd(path, k)))
    ELSE IF At(path, k + 1) = c.sl THEN canon_loop(path, k + 1, res)
    ELSE IF At(path, k + 1) = c.dot /\ At(path, k + 2) \in {c.sl, 0}
         THEN canon_loop(path, k + 2, res)
    ELSE IF At(path, k + 1) = c.dot /\ At(path, k + 2) = c.dot /\ At(path, k + 3) \in {c.sl, 0}
         THEN canon_loop(path, k + 3, PopSegment(res))
    ELSE canon_loop(path, k + 1, Append(res, c.sl))

\* canonpath in string-rewrite mode (conf.no_symlinks unset).
canonpath(path) ==
    LET res == canon_loop(path, 0, <<>>) IN
    IF Len(res) > 1 /\ res[Len(res)] = c.sl THEN Take(res, Len(res) - 1)
    ELSE IF Len(res) = 0 THEN <<c.sl>>
    ELSE res

\* ------------------------------------------------------- uh_path_lookup

\* The containment test of uh_path_lookup, with the boundary byte dropped.
WithinDocrootPrefixOnly(phys, docroot) == StrNEq(phys, docroot, Len(docroot))

\* strncmp(path_phys, docroot, docroot_len) == 0 and the byte after it is NUL or '/'
WithinDocroot(phys, docroot) ==
    /\ StrNEq(phys, docroot, Len(docroot))
    /\ At(phys, Len(docroot)) \in {0, c.sl}

(* A struct path_info, with null for a NULL result; path_phys is the static *)
(* buffer p.phys points into (p.phys itself stays unset on a redirect), and *)
(* location the Location header of the 302 a redirect sent.                *)
NoPathInfo == [null |-> TRUE, root |-> <<>>, phys |-> <<>>, path_phys |-> <<>>, name |-> <<>>,
               info |-> <<>>, query |-> <<>>, hasquery |-> FALSE, redirected |-> FALSE,
               st |-> NoStat, location |-> <<>>]

\* The offset the "create canon path" loop stops at: the last i <= len whose
\* byte is NUL or '/'.
SplitOffset(buf, len) ==
    CHOOSE k \in 0..len : /\ At(buf, k) \in {0, c.sl}
                          /\ \A j \in (k + 1)..len : At(buf, j) \notin {0, c.sl}

\* The index-file loop: the first name of idxs that stats as a regular file
\* under dir (which ends in '/'), 0 when there is none.
FirstIndex(dir, idxs) ==
    LET hit(n) == /\ Len(idxs[n]) <= PATH_MAX - Len(dir) - 1
                  /\ stat(dir \o idxs[n]).ok
                  /\ stat(dir \o idxs[n]).st.type = "reg"
    IN IF \E n \in 1..Len(idxs) : hit(n)
       THEN CHOOSE n \in 1..Len(idxs) : hit(n) /\ \A j \in 1..(n - 1) : ~hit(j)
       ELSE 0

(* "separate query string from url" and the decoding of the rest: rv is    *)
(* what uh_urldecode returned (0 when it was not called), path the decoded *)
(* path, query the text after the first '?' (pquery: p.query is set).      *)
SplitUrl(url, qpos, blen) ==
    IF qpos < 0 THEN [dec |-> uh_urldecode(url, blen), query |-> <<>>, pquery |-> FALSE]
    ELSE [dec    |-> IF qpos > 0 THEN uh_urldecode(Take(url, qpos), blen)
                                 ELSE [rv |-> 0, buf |-> <<>>],
          query  |-> Drop(url, qpos + 1),
          pquery |-> Len(url) > qpos + 1]

(* "create canon path": the canonical path of uh_buf cut at offset i, the   *)
(* rest of uh_buf as path_info, and whether uh_buf ends in '/'.             *)
CanonSplit(uh_buf, i) ==
    [phys  |-> canonpath(Take(uh_buf, i)),
     info  |-> Drop(uh_buf, i),
     slash |-> Len(uh_buf) > 0 /\ At(uh_buf, Len(uh_buf) - 1) = c.sl]

\* "ensure trailing slash"
WithSlash(phys) == IF At(phys, Len(phys) - 1) # c.sl THEN Append(phys, c.sl) ELSE phys

\* "try to locate index file" and the result for a directory; n is FirstIndex's answer.
IndexResult(docroot, physdir, idxs, n, u, dirst) ==
    [null |-> FALSE, root |-> docroot,
     phys |-> IF n = 0 THEN physdir ELSE physdir \o idxs[n],
     path_phys |-> IF n = 0 THEN physdir ELSE physdir \o idxs[n],
     name |-> Drop(IF n = 0 THEN physdir ELSE physdir \o idxs[n], Len(docroot)),
     info |-> <<>>, query |-> u.query, hasquery |-> u.pquery, redirected |-> FALSE,
     st |-> IF n = 0 THEN dirst ELSE stat(physdir \o idxs[n]).st, location |-> <<>>]

\* uh_path_lookup from the containment test on; cs is CanonSplit's answer, s stat's.
LookupResult(docroot, idxs, u, cs, s) ==
    IF ~WithinDocroot(cs.phys, docroot) THEN NoPathInfo
    ELSE IF ~s.ok THEN NoPathInfo
    ELSE IF s.st.type = "reg" THEN
        [null |-> FALSE, root |-> docroot, phys |-> cs.phys, path_phys |-> cs.phys,
         name |-> Drop(cs.phys, Len(docroot)), info |-> cs.info,
         query |-> u.query, hasquery |-> u.pquery, redirected |-> FALSE,
         st |-> s.st, location |-> <<>>]
    ELSE IF s.st.type # "dir" THEN NoPathInfo
    ELSE IF Len(cs.info) > 0 THEN NoPathInfo
    ELSE IF ~cs.slash THEN
        [null |-> FALSE, root |-> <<>>, phys |-> <<>>, path_phys |-> WithSlash(cs.phys),
         name |-> <<>>, info |-> <<>>,
         query |-> u.query, hasquery |-> u.pquery, redirected |-> TRUE, st |-> s.st,
         location |-> Drop(WithSlash(cs.phys), Len(docroot))
                      \o (IF u.pquery THEN <<c.qm>> \o u.query ELSE <<>>)]
    ELSE IndexResult(docroot, WithSlash(cs.phys), idxs,
                     FirstIndex(WithSlash(cs.phys), idxs), u, s.st)

\* uh_path_lookup from "check whether found path is within docroot" on.
LookupCanon(docroot, idxs, u, cs) == LookupResult(docroot, idxs, u, cs, stat(cs.phys))

\* uh_path_lookup after the URL is split and decoded.
LookupDecoded(docroot, idxs, u) ==
    IF u.dec.rv < 0 THEN NoPathInfo
    ELSE LookupCanon(docroot, idxs, u,
                     CanonSplit(docroot \o u.dec.buf,
                                SplitOffset(docroot \o u.dec.buf,
                                            Min(Len(docroot \o u.dec.buf), PATH_MAX - 1))))

(* uh_path_lookup(cl, url) for a non-NULL url: the path_info it returns     *)
(* (null: NULL). The 302 of a redirect is written by Redirect.              *)
uh_path_lookup(url, docroot, idxs) ==
    LookupDecoded(docroot, idxs,
                  SplitUrl(url, StrChr(url, c.qm), UH_BUF_SIZE - Len(docroot) - 1))

\* --------------------------------------------------------- entity tag

\* What sizeof(char *) is on the builds of the server: ILP32 and LP64.
PointerSizes == {4, 8}

HexDigit(d) == IF d < 10 THEN c.d0 + d ELSE c.a + (d - 10)

\* printf's %x
RECURSIVE HexStr(_)
HexStr(n) == IF n < 16 THEN <<HexDigit(n)>> ELSE Append(HexStr(n \div 16), HexDigit(n % 16))

(* (unsigned int) x: the value modulo 2^32, which is x itself for every     *)
(* non-negative number of the model (all are below 2^31).                  *)
U32(x) == x

\* The tag as the format string "\"%x-%x-%x\"" writes it in full.
FullTag(ino, size, mtime) ==
    <<c.quo>> \o HexStr(U32(ino)) \o <<c.dash>> \o HexStr(U32(size)) \o <<c.dash>>
              \o HexStr(U32(mtime)) \o <<c.quo>>

(* uh_file_mktag(s, buf): snprintf(buf, sizeof(buf), ...) with buf a char * *)
(* parameter, so that sizeof(buf) is the size of a pointer (ptr) and the    *)
(* tag is cut to ptr - 1 characters.                                        *)
uh_file_mktag(ino, size, mtime, ptr) == Take(FullTag(ino, size, mtime), ptr - 1)

\* ------------------------------------------------------ request headers

\* Latest date a request header names (the served files are of time 1).
MaxDate == 2

Methods == {"GET", "HEAD", "POST", "DELETE"}

(* A date header: absent, or present with a value strptime parses as the    *)
(* RFC 1123 date of second t (valid), or with a value it rejects.          *)
NoDate  == [present |-> FALSE, valid |-> FALSE, t |-> 0]
BadDate == [present |-> TRUE, valid |-> FALSE, t |-> 0]
DateHdrs == {NoDate, BadDate} \cup { [present |-> TRUE, valid |-> TRUE, t |-> x] : x \in 0..MaxDate }

\* A header holding a list of entity tags: absent, or its value as a string.
NoList == [present |-> FALSE, val |-> <<>>]
ListHdrs(tag) == {NoList} \cup { [present |-> TRUE, val |-> x] : x \in {<<c.star>>, tag, <<c.a>>} }

NoHeaders == [ims |-> NoDate, im |-> NoList, ir |-> FALSE, ius |-> NoDate, inm |-> NoList]

\* Every combination of the five conditional headers.
AllHeaders(tag) ==
    [ims : DateHdrs, im : ListHdrs(tag), ir : BOOLEAN, ius : DateHdrs, inm : ListHdrs(tag)]

\* Requests with no conditional header or with one.
FewHeaders(tag) ==
    { NoHeaders,
      [NoHeaders EXCEPT !.ir = TRUE],
      [NoHeaders EXCEPT !.inm = [present |-> TRUE, val |-> <<c.star>>]],
      [NoHeaders EXCEPT !.im = [present |-> TRUE, val |-> tag]],
      [NoHeaders EXCEPT !.ims = [present |-> TRUE, valid |-> TRUE, t |-> 1]] }

\* uh_file_date2unix: the parsed time, 0 when strptime rejects the value.
uh_file_date2unix(d) == IF d.valid THEN d.t ELSE 0

\* ------------------------------------------------------ the client state

(* struct client as file.c uses it. The output stream: the status lines    *)
(* written (status), the Location header, the body bytes enqueued (body; -1 *)
(* stands for bytes that are not the file's), whether a directory listing  *)
(* was written, the queued-but-unflushed count (data_bytes), the calls of   *)
(* uh_request_done (done). cl->dispatch: write_cb, free, fd. The served      *)
(* file's descriptor: opens, closes, read offset, size, the reads that      *)
(* failed (faults) and those of them that failed with an error other than  *)
(* EINTR (errs). The request's trail: log, the handler invoked, the         *)
(* predicates checked. cb: file_write_cb is running. conn: the connection.  *)
NoCl == [status |-> <<>>, location |-> <<>>, body |-> <<>>, listing |-> FALSE, entries |-> <<>>,
         data_bytes |-> 0, done |-> 0,
         write_cb |-> FALSE, free |-> FALSE, fd |-> 0,
         opens |-> 0, closes |-> 0, off |-> 0, size |-> 0, faults |-> 0, errs |-> 0,
         log |-> <<>>, invoked |-> 0, checked |-> <<>>,
         cb |-> FALSE, conn |-> "open"]

Log(cl, ev) == [cl EXCEPT !.log = Append(@, ev)]

\* close(fd)
close(cl) == [cl EXCEPT !.closes = @ + 1]

\* uh_file_free: close(cl->dispatch.file.fd)
uh_file_free(cl) == close(cl)

\* uh_dispatch_done of client.c: runs the dispatch's free callback.
uh_dispatch_done(cl) == IF cl.free THEN uh_file_free(cl) ELSE cl

(* uh_request_done of client.c: ends the response, runs the dispatch's free *)
(* callback and clears cl->dispatch.                                        *)
uh_request_done(cl) ==
    [uh_dispatch_done(cl) EXCEPT !.done = @ + 1, !.write_cb = FALSE, !.free = FALSE, !.fd = 0]

\* uh_http_header of utils.c: writes the status line.
uh_http_header(cl, code) == [cl EXCEPT !.status = Append(@, code)]

\* uh_client_error of client.c: writes the status and ends the request.
uh_client_error(cl, code) == uh_request_done(uh_http_header(cl, code))

\* -------------------------------------------------- conditional requests

uh_file_response_200(cl) == uh_http_header(cl, 200)
uh_file_response_304(cl) == uh_http_header(cl, 304)
uh_file_response_412(cl) == uh_http_header(cl, 412)

\* strlen(s) of a buffer that may hold NULs.
CStrLen(s) == IF \E k \in 1..Len(s) : s[k] = 0 THEN StrChr(s, 0) ELSE Len(s)

\* The C string at offset p of a buffer that may hold NULs.
CStrAt(s, p) == LET t == Drop(s, p) IN Take(t, CStrLen(t))

(* The loop uh_file_if_match and uh_file_if_none_match share: TRUE when it  *)
(* reaches the branch for a match. i is the loop index, p the offset of    *)
(* the token start, hdr the header's buffer, which the loop writes to.      *)
RECURSIVE TagListLoop(_, _, _, _)
TagListLoop(hdr, i, p, tag) ==
    IF i >= CStrLen(hdr) THEN FALSE
    ELSE IF At(hdr, i) \in {c.sp, c.comma}
         THEN TagListLoop([hdr EXCEPT ![i + 1] = 0], i + 2, i + 1, tag)
    ELSE IF CStrAt(hdr, p) = <<c.star>> \/ CStrAt(hdr, p) = tag THEN TRUE
    ELSE TagListLoop(hdr, i + 1, p, tag)

Tag(st, ptr) == uh_file_mktag(st.ino, st.size, st.mtime, ptr)

\* Each check gives the client state after it and ok, its return value.

uh_file_if_modified_since(cl, h, st) ==
    IF ~h.ims.present THEN [ok |-> TRUE, cl |-> cl]
    ELSE IF uh_file_date2unix(h.ims) >= st.mtime
         THEN [ok |-> FALSE, cl |-> uh_file_response_304(cl)]
    ELSE [ok |-> TRUE, cl |-> cl]

uh_file_if_match(cl, h, st, ptr) ==
    IF ~h.im.present THEN [ok |-> TRUE, cl |-> cl]
    ELSE IF TagListLoop(h.im.val, 0, 0, Tag(st, ptr)) THEN [ok |-> TRUE, cl |-> cl]
    ELSE [ok |-> FALSE, cl |-> uh_file_response_412(cl)]

\* An If-Range check that lets the request through.
uh_file_if_range_ignored(cl, h) == [ok |-> TRUE, cl |-> cl]

uh_file_if_range(cl, h) ==
    IF h.ir THEN [ok |-> FALSE, cl |-> uh_file_response_412(cl)]
    ELSE [ok |-> TRUE, cl |-> cl]

uh_file_if_unmodified_since(cl, h, st) ==
    IF h.ius.present /\ uh_file_date2unix(h.ius) <= st.mtime
    THEN [ok |-> FALSE, cl |-> uh_file_response_412(cl)]
    ELSE [ok |-> TRUE, cl |-> cl]

\* An If-None-Match check that answers 304 to every method.
uh_file_if_none_match_304(cl, h, st, method, ptr) ==
    IF ~h.inm.present THEN [ok |-> TRUE, cl |-> cl]
    ELSE IF TagListLoop(h.inm.val, 0, 0, Tag(st, ptr))
         THEN [ok |-> FALSE, cl |-> uh_file_response_304(cl)]
    ELSE [ok |-> TRUE, cl |-> cl]

uh_file_if_none_match(cl, h, st, method, ptr) ==
    IF ~h.inm.present THEN [ok |-> TRUE, cl |-> cl]
    ELSE IF TagListLoop(h.inm.val, 0, 0, Tag(st, ptr))
         THEN [ok |-> FALSE,
               cl |-> IF method \in {"GET", "HEAD"} THEN uh_file_response_304(cl)
                                                    ELSE uh_file_response_412(cl)]
    ELSE [ok |-> TRUE, cl |-> cl]

\* A "test preconditions" that makes all five checks whatever the earlier ones gave.
PreconditionsAllRun(cl, method, h, st, ptr) ==
    LET r1 == uh_file_if_modified_since(Log(cl, "if_modified_since"), h, st)
        r2 == uh_file_if_match(Log(r1.cl, "if_match"), h, st, ptr)
        r3 == uh_file_if_range(Log(r2.cl, "if_range"), h)
        r4 == uh_file_if_unmodified_since(Log(r3.cl, "if_unmodified_since"), h, st)
        r5 == uh_file_if_none_match(Log(r4.cl, "if_none_match"), h, st, method, ptr)
    IN [ok |-> r1.ok /\ r2.ok /\ r3.ok /\ r4.ok /\ r5.ok, cl |-> r5.cl]

(* The "test preconditions" condition of uh_file_data: the five checks in   *)
(* order, each logged as it runs, none run after one has failed.           *)
Preconditions(cl, method, h, st, ptr) ==
    LET r1 == uh_file_if_modified_since(Log(cl, "if_modified_since"), h, st)
        r2 == uh_file_if_match(Log(r1.cl, "if_match"), h, st, ptr)
        r3 == uh_file_if_range(Log(r2.cl, "if_range"), h)
        r4 == uh_file_if_unmodified_since(Log(r3.cl, "if_unmodified_since"), h, st)
        r5 == uh_file_if_none_match(Log(r4.cl, "if_none_match"), h, st, method, ptr)
    IN IF ~r1.ok THEN r1 ELSE IF ~r2.ok THEN r2 ELSE IF ~r3.ok THEN r3
       ELSE IF ~r4.ok THEN r4 ELSE r5

\* ---------------------------------------------------- serving a file

\* Bytes one read() of file_write_cb asks for (sizeof(uh_buf), scaled down).
ChunkSize == 2

\* The queued-byte count below which file_write_cb reads on (256, scaled down).
LowWater == 2

\* Reads of one transfer that fail (EINTR or another error).
MaxFaults == 1

\* The bytes of a file of n bytes.
Content(n) == [k \in 1..n |-> k]

\* d_type of a struct dirent (dirent.h); DT_LNK is a symbolic link.
DT_UNKNOWN == 0
DT_DIR == 4
DT_REG == 8
DT_LNK == 10

\* d_type & DT_DIR
HasDirBit(d_type) == (d_type \div DT_DIR) % 2 = 1

(* What readdir gives for the directory dir (its path ends in '/') of FS:   *)
(* "." and "..", and one entry for each child, its type in d_type.          *)
readdir(dir) ==
    { [name |-> n, d_type |-> DT_DIR, ok |-> TRUE, isdir |-> TRUE, roth |-> TRUE, xoth |-> TRUE] :
        n \in { <<c.dot>>, <<c.dot, c.dot>> } }
    \cup
    { [name |-> Drop(x.path, Len(dir)),
       d_type |-> IF x.type = "dir" THEN DT_DIR ELSE DT_REG,
       ok |-> TRUE, isdir |-> x.type = "dir", roth |-> x.oread, xoth |-> x.oread] :
        x \in { y \in FS : /\ Len(y.path) > Len(dir) /\ Take(y.path, Len(dir)) = dir
                            /\ StrChr(Drop(y.path, Len(dir)), c.sl) = -1 } }

\* strcmp(a, b): negative, zero or positive.
RECURSIVE strcmp(_, _)
strcmp(a, b) ==
    IF At(a, 0) # At(b, 0) THEN At(a, 0) - At(b, 0)
    ELSE IF At(a, 0) = 0 THEN 0
    ELSE strcmp(Drop(a, 1), Drop(b, 1))

\* alphasort(a, b): strcoll of the two names, strcmp in the "C" locale the server runs in.
alphasort(a, b) == strcmp(a.name, b.name)

\* dirent_cmp(a, b): directories first, then alphasort.
dirent_cmp(a, b) ==
    IF HasDirBit(a.d_type) # HasDirBit(b.d_type)
    THEN (IF HasDirBit(b.d_type) THEN 1 ELSE 0) - (IF HasDirBit(a.d_type) THEN 1 ELSE 0)
    ELSE alphasort(a, b)

\* scandir(pi->phys, &files, NULL, dirent_cmp): the entries read, sorted by dirent_cmp.
RECURSIVE scandir(_)
scandir(files) ==
    IF files = {} THEN <<>>
    ELSE <<CHOOSE f \in files : \A g \in files \ {f} : dirent_cmp(f, g) < 0>>
         \o scandir(files \ {CHOOSE f \in files : \A g \in files \ {f} : dirent_cmp(f, g) < 0})

(* list_entries from files[i] on. asdir: suffix is still "/" and mode still *)
(* S_IXOTH (no entry without the DT_DIR bit was stat'ed yet); out: the     *)
(* entries emitted so far, each with its name and suffix.                   *)
RECURSIVE list_entries(_, _, _, _)
list_entries(files, i, asdir, out) ==
    IF i > Len(files) THEN out
    ELSE IF files[i].name = <<c.dot>> \/ ~files[i].ok
         THEN list_entries(files, i + 1, asdir, out)
    ELSE IF asdir /\ HasDirBit(files[i].d_type)
         THEN list_entries(files, i + 1, TRUE,
                           IF files[i].xoth
                           THEN Append(out, [name |-> files[i].name, suffix |-> "/"])
                           ELSE out)
    ELSE list_entries(files, i + 1, FALSE,
                      IF files[i].roth
                      THEN Append(out, [name |-> files[i].name, suffix |-> ""])
                      ELSE out)

(* uh_file_dirlist: 200, the listing (header, the entries of the directory  *)
(* as list_entries emits them, footer), the end of the request. files: what *)
(* the directory holds.                                                     *)
uh_file_dirlist(cl, files) ==
    uh_request_done([uh_file_response_200(Log(cl, "dirlist"))
                        EXCEPT !.listing = TRUE,
                               !.entries = list_entries(scandir(files), 1, TRUE, <<>>)])

\* uh_file_data after "test preconditions": pre is what the checks gave.
AfterPreconditions(pre, method) ==
    IF ~pre.ok THEN close(uh_request_done(pre.cl))
    ELSE IF method = "HEAD" THEN close(uh_request_done(uh_file_response_200(pre.cl)))
    ELSE [uh_file_response_200(pre.cl) EXCEPT !.fd = 3, !.write_cb = TRUE, !.free = TRUE,
                                              !.cb = TRUE]

(* uh_file_data(cl, pi, fd): a failed precondition or HEAD ends the request *)
(* and closes fd; otherwise the transfer is set up and file_write_cb is     *)
(* entered (cb).                                                            *)
uh_file_data(cl, method, h, st, ptr) ==
    AfterPreconditions(Preconditions(cl, method, h, st, ptr), method)

\* The error label of uh_file_request.
Forbidden(cl) == uh_client_error(cl, 403)

\* A uh_file_request without the test of S_IROTH.
uh_file_request_any_mode(cl, method, h, pinfo, openok, ptr, no_dirlists) ==
    IF pinfo.st.type = "reg" THEN
        IF ~openok THEN Forbidden(Log(cl, "file_request"))
        ELSE uh_file_data([Log(cl, "file_request")
                              EXCEPT !.opens = @ + 1, !.size = pinfo.st.size, !.off = 0],
                          method, h, pinfo.st, ptr)
    ELSE IF pinfo.st.type = "dir" /\ ~no_dirlists
         THEN uh_file_dirlist(Log(cl, "file_request"), readdir(pinfo.phys))
    ELSE Forbidden(Log(cl, "file_request"))

(* uh_file_request(cl, url, pi, tb); openok says whether open() succeeds.   *)
uh_file_request(cl, method, h, pinfo, openok, ptr, no_dirlists) ==
    LET c0 == Log(cl, "file_request") IN
    IF ~pinfo.st.oread THEN Forbidden(c0)
    ELSE IF pinfo.st.type = "reg" THEN
        IF ~openok THEN Forbidden(c0)
        ELSE uh_file_data([c0 EXCEPT !.opens = @ + 1, !.size = pinfo.st.size, !.off = 0],
                          method, h, pinfo.st, ptr)
    ELSE IF pinfo.st.type = "dir" THEN
        IF no_dirlists THEN Forbidden(c0) ELSE uh_file_dirlist(c0, readdir(pinfo.phys))
    ELSE Forbidden(c0)

\* ------------------------------------------------------------- dispatch

\* Most handlers registered.
MaxHandlers == 2

\* Most index file names registered.
MaxIndex == 1

(* The handlers other modules register: each has one predicate, on the URL  *)
(* (check_url) or on the resolved path (check_path), here a prefix test.    *)
HandlerPool == {
    [id |-> 1, kind |-> "url",  prefix |-> <<c.sl, c.v>>],
    [id |-> 2, kind |-> "path", prefix |-> <<c.sl, c.r>>],
    [id |-> 3, kind |-> "path", prefix |-> <<c.sl, c.r, c.sl, c.a>>] }

check_url(d, url) == StrNEq(url, d.prefix, Len(d.prefix))
check_path(d, pinfo) == StrNEq(pinfo.phys, d.prefix, Len(d.prefix))

\* Whether the loop of dispatch_find calls the predicate of handler d.
Consulted(d, haspi) == IF haspi THEN d.kind = "path" ELSE d.kind = "url"

Accepts(d, url, pinfo, haspi) ==
    Consulted(d, haspi) /\ (IF haspi THEN check_path(d, pinfo) ELSE check_url(d, url))

RECURSIVE dispatch_loop_last(_, _, _, _, _, _, _)
dispatch_loop_last(hs, n, url, pinfo, haspi, checked, found) ==
    IF n > Len(hs) THEN [d |-> found, checked |-> checked]
    ELSE IF ~Consulted(hs[n], haspi)
         THEN dispatch_loop_last(hs, n + 1, url, pinfo, haspi, checked, found)
    ELSE dispatch_loop_last(hs, n + 1, url, pinfo, haspi, Append(checked, hs[n].id),
                            IF Accepts(hs[n], url, pinfo, haspi) THEN n ELSE found)

\* A dispatch_find that goes on after a match and returns the last one.
dispatch_find_last(hs, url, pinfo, haspi) == dispatch_loop_last(hs, 1, url, pinfo, haspi, <<>>, 0)

\* The list_for_each_entry loop of dispatch_find, from the n-th handler on.
RECURSIVE dispatch_loop(_, _, _, _, _, _)
dispatch_loop(hs, n, url, pinfo, haspi, checked) ==
    IF n > Len(hs) THEN [d |-> 0, checked |-> checked]
    ELSE IF ~Consulted(hs[n], haspi) THEN dispatch_loop(hs, n + 1, url, pinfo, haspi, checked)
    ELSE IF Accepts(hs[n], url, pinfo, haspi) THEN [d |-> n, checked |-> Append(checked, hs[n].id)]
    ELSE dispatch_loop(hs, n + 1, url, pinfo, haspi, Append(checked, hs[n].id))

(* dispatch_find(url, pi): the position in the list of the handler it       *)
(* returns (0: NULL) and the handlers whose predicate it called, in order.  *)
dispatch_find(hs, url, pinfo, haspi) == dispatch_loop(hs, 1, url, pinfo, haspi, <<>>)

\* d->handle_request(cl, url, pi): the handler of another module takes over.
Invoke(cl, d) == [Log(cl, "handler") EXCEPT !.invoked = d.id]

\* uh_auth_check of auth.c, when it denies: the challenge, the end of the request.
AuthDenied(cl) == uh_client_error(cl, 401)

\* ---------------------------------------------------- the entry point

\* The 302 uh_path_lookup writes for a directory asked for without its '/'.
Redirect(cl, pinfo) ==
    uh_request_done([uh_http_header(cl, 302) EXCEPT !.location = pinfo.location])

(* __handle_file_request from the authorization check on: c0 is the client *)
(* state, pinfo the resolved entry, f the answer of dispatch_find(url, pi). *)
ServeResolved(c0, pinfo, f, r, cf, hs, ptr) ==
    IF ~r.auth THEN AuthDenied(Log(c0, "auth_check"))
    ELSE IF f.d # 0
         THEN Invoke([Log(Log(c0, "auth_check"), "path_dispatch")
                          EXCEPT !.checked = @ \o f.checked], hs[f.d])
    ELSE uh_file_request([Log(Log(c0, "auth_check"), "path_dispatch")
                              EXCEPT !.checked = @ \o f.checked],
                         r.method, r.hdr, pinfo, r.openok, ptr, cf.no_dirlists)

\* __handle_file_request after its lookup has returned pinfo.
HandleResolved(c0, pinfo, url, r, cf, hs, ptr) ==
    IF pinfo.null THEN [handled |-> FALSE, pi |-> pinfo, cl |-> c0]
    ELSE IF pinfo.redirected THEN [handled |-> TRUE, pi |-> pinfo, cl |-> Redirect(c0, pinfo)]
    ELSE [handled |-> TRUE, pi |-> pinfo,
          cl |-> ServeResolved(c0, pinfo, dispatch_find(hs, url, pinfo, TRUE), r, cf, hs, ptr)]

(* __handle_file_request(cl, url): handled is its return value, pi the      *)
(* result of its lookup; a NULL url (hasurl false) resolves to nothing. r   *)
(* is the request with what the environment settles for it: the answer of  *)
(* uh_auth_check (auth) and whether open() succeeds (openok).              *)
handle_file_request(cl, url, hasurl, stage, r, cf, idxs, hs, ptr) ==
    HandleResolved(Log(cl, stage),
                   IF hasurl THEN uh_path_lookup(url, cf.docroot, idxs) ELSE NoPathInfo,
                   url, r, cf, hs, ptr)

\* The end of uh_handle_request: b is what the error handler's resolution gave.
AfterErrorHandler(b) ==
    IF b.handled THEN [pi |-> b.pi, cl |-> b.cl]
    ELSE [pi |-> b.pi, cl |-> uh_client_error(Log(b.cl, "not_found"), 404)]

\* A uh_handle_request that answers 404 without trying the error document.
AfterStaticNoErrorHandler(a, r, cf, idxs, hs, ptr) ==
    IF a.handled THEN [pi |-> a.pi, cl |-> a.cl]
    ELSE [pi |-> a.pi, cl |-> uh_client_error(Log(a.cl, "not_found"), 404)]

\* uh_handle_request after __handle_file_request(cl, url) has returned a.
AfterStatic(a, r, cf, idxs, hs, ptr) ==
    IF a.handled THEN [pi |-> a.pi, cl |-> a.cl]
    ELSE AfterErrorHandler(handle_file_request(a.cl, cf.error_handler, cf.error_handler # <<>>,
                                               "resolve_error_handler", r, cf, idxs, hs, ptr))

\* A uh_handle_request that does not return after a URL handler has run.
AfterUrlDispatchFallthrough(c0, f, r, cf, idxs, hs, ptr) ==
    AfterStatic(handle_file_request(IF f.d # 0 THEN Invoke(c0, hs[f.d]) ELSE c0,
                                    r.url, TRUE, "resolve_url", r, cf, idxs, hs, ptr),
                r, cf, idxs, hs, ptr)

\* uh_handle_request after dispatch_find(url, NULL) has returned f.
AfterUrlDispatch(c0, f, r, cf, idxs, hs, ptr) ==
    IF f.d # 0 THEN [pi |-> NoPathInfo, cl |-> Invoke(c0, hs[f.d])]
    ELSE AfterStatic(handle_file_request(c0, r.url, TRUE, "resolve_url", r, cf, idxs, hs, ptr),
                     r, cf, idxs, hs, ptr)

\* The URL stage of uh_handle_request: the predicates dispatch_find called are noted.
UrlDispatch(cl, f) == [Log(cl, "url_dispatch") EXCEPT !.checked = @ \o f.checked]

\* uh_handle_request(cl): the client state after it and the path_info left.
uh_handle_request(cl, r, cf, idxs, hs, ptr) ==
    AfterUrlDispatch(UrlDispatch(cl, dispatch_find(hs, r.url, NoPathInfo, FALSE)),
                     dispatch_find(hs, r.url, NoPathInfo, FALSE), r, cf, idxs, hs, ptr)

\* ------------------------------------------------------- file_write_cb

\* A loop condition that ignores what is queued.
ReadRegardless(cl) == TRUE

\* The condition of the while loop of file_write_cb.
BelowLowWater(cl) == cl.data_bytes < LowWater

(* What one read() of the loop can return: rv > 0 bytes, 0 at the end of    *)
(* the file, or -1 with errno EINTR or another error.                       *)
ReadResults(cl) ==
    { [rv |-> n, eintr |-> FALSE] : n \in 1..Min(ChunkSize, cl.size - cl.off) }
    \cup (IF cl.off = cl.size THEN { [rv |-> 0, eintr |-> FALSE] } ELSE {})
    \cup (IF cl.faults < MaxFaults THEN { [rv |-> -1, eintr |-> e] : e \in BOOLEAN } ELSE {})

(* uh_chunk_write(cl, uh_buf, r): r bytes are enqueued, of which q stay     *)
(* queued for now; a negative r enqueues bytes that are not the file's.     *)
uh_chunk_write(cl, r, q) ==
    IF r > 0
    THEN [cl EXCEPT !.body = @ \o SubSeq(Content(cl.size), cl.off + 1, cl.off + r),
                    !.off = @ + r, !.data_bytes = @ + q]
    ELSE [cl EXCEPT !.body = Append(@, -1), !.data_bytes = @ + q]

\* A file_write_cb that takes a read shorter than the buffer for the end of the file.
file_write_cb_short_read(cl, rd, q) ==
    IF rd.rv < 0 /\ rd.eintr THEN [cl EXCEPT !.faults = @ + 1]
    ELSE IF rd.rv < ChunkSize /\ rd.rv >= 0 THEN [uh_request_done(cl) EXCEPT !.cb = FALSE]
    ELSE IF rd.rv < 0 THEN uh_chunk_write([cl EXCEPT !.faults = @ + 1, !.errs = @ + 1], rd.rv, q)
    ELSE uh_chunk_write(cl, rd.rv, q)

(* One turn of the loop of file_write_cb, entered with the loop condition   *)
(* true, for the read result rd.                                            *)
file_write_cb(cl, rd, q) ==
    IF rd.rv < 0 /\ rd.eintr THEN [cl EXCEPT !.faults = @ + 1]
    ELSE IF rd.rv = 0 THEN [uh_request_done(cl) EXCEPT !.cb = FALSE]
    ELSE IF rd.rv < 0 THEN uh_chunk_write([cl EXCEPT !.faults = @ + 1, !.errs = @ + 1], rd.rv, q)
    ELSE uh_chunk_write(cl, rd.rv, q)

\* The client's connection is closed: client.c runs the dispatch's free
\* callback and clears cl->dispatch.
client_close(cl) ==
    [uh_dispatch_done(cl) EXCEPT !.write_cb = FALSE, !.free = FALSE, !.fd = 0, !.conn = "closed"]

\* ------------------------------------------------------------------ state

VARIABLES
    phase,              \* "startup", "serving", or the step of a resolver or tag run
    conf,               \* the configuration: docroot, error_handler (<<>>: unset), no_dirlists
    index_files,        \* the index_files list, in registration order
    dispatch_handlers,  \* the dispatch_handlers list, in registration order
    req,                \* the client's parsed request and what the environment settles for it
    pi,                 \* the static struct path_info of uh_path_lookup
    cl,                 \* the client
    tags,               \* the pointer size of the build, and the tags of a tag run
    canon,              \* a canonpath run: the path given, and what one and two calls made of it
    dirents             \* a listing run: the entries of the directory listed

vars == <<phase, conf, index_files, dispatch_handlers, req, pi, cl, tags, canon, dirents>>

NoReq  == [got |-> FALSE, url |-> <<>>, method |-> "GET", hdr |-> NoHeaders,
           auth |-> TRUE, openok |-> TRUE]
NoTags == [ptr |-> 8, a |-> <<0, 0, 0>>, b |-> <<0, 0, 0>>, ta |-> <<>>, tb |-> <<>>]
NoCanon == [path |-> <<>>, once |-> <<>>, twice |-> <<>>]

\* --------------------------------------------- the resolver on its own

RECURSIVE Flatten(_)
Flatten(ss) == IF Len(ss) = 0 THEN <<>> ELSE ss[1] \o Flatten(Tail(ss))

\* What request URLs are made of: separators, '.', '..', names, '?', the escapes
\* of '.' and '/', and a '%' that starts no escape.
UrlUnits == { <<c.sl>>, <<c.dot>>, <<c.dot, c.dot>>, <<c.a>>, <<c.e>>, <<c.qm>>,
              <<c.pct, c.d2, c.e>>, <<c.pct, c.d2, c.f>>, <<c.pct>> }

PathUrls == { Flatten(u) : u \in UNION { [1..n -> UrlUnits] : n \in 0..MaxUrlUnits } }

\* Document roots: absolute, canonical, without a trailing '/'.
Docroots == { <<c.sl, c.r>>, <<c.sl, c.r, c.sl, c.a>> }

IndexNames == { <<c.i>> }

InitPath ==
    /\ phase = "path"
    /\ conf \in { [docroot |-> d, error_handler |-> <<>>, no_dirlists |-> FALSE] : d \in Docroots }
    /\ index_files \in { <<>>, <<<<c.i>>>> }
    /\ req \in { [NoReq EXCEPT !.got = TRUE, !.url = u] : u \in PathUrls }
    /\ pi = NoPathInfo
    /\ dispatch_handlers = <<>>
    /\ cl = NoCl
    /\ tags = NoTags
    /\ canon = NoCanon
    /\ dirents = {}

\* uh_path_lookup(cl, req.url), with the 302 it writes for a redirect
PathLookup ==
    /\ phase = "path"
    /\ \E pinfo \in {uh_path_lookup(req.url, conf.docroot, index_files)} :
        /\ pi' = pinfo
        /\ cl' = IF ~pinfo.null /\ pinfo.redirected THEN Redirect(cl, pinfo) ELSE cl
    /\ phase' = "looked"
    /\ UNCHANGED <<conf, index_files, dispatch_handlers, req, tags, canon, dirents>>

NextPath == PathLookup

SpecPath == InitPath /\ [][NextPath]_vars

\* ------------------------------------------------- the tag on its own

\* Inode numbers, sizes and times of the tag run.
TagVals == {1, 2, 48, 49, 256}

InitTag ==
    /\ phase = "tag"
    /\ conf = [docroot |-> <<c.sl, c.r>>, error_handler |-> <<>>, no_dirlists |-> FALSE]
    /\ index_files = <<>>
    /\ dispatch_handlers = <<>>
    /\ req = NoReq
    /\ pi = NoPathInfo
    /\ cl = NoCl
    /\ tags \in [ptr : PointerSizes, a : TagVals \X TagVals \X TagVals,
                 b : TagVals \X TagVals \X TagVals, ta : {<<>>}, tb : {<<>>}]
    /\ canon = NoCanon
    /\ dirents = {}

\* uh_file_mktag on the two stat results a and b
MkTags ==
    /\ phase = "tag"
    /\ tags' = [tags EXCEPT !.ta = uh_file_mktag(tags.a[1], tags.a[2], tags.a[3], tags.ptr),
                            !.tb = uh_file_mktag(tags.b[1], tags.b[2], tags.b[3], tags.ptr)]
    /\ phase' = "tagged"
    /\ UNCHANGED <<conf, index_files, dispatch_handlers, req, pi, cl, canon, dirents>>

NextTag == MkTags

SpecTag == InitTag /\ [][NextTag]_vars

\* --------------------------------------------------- the transfer events

\* file_write_cb runs on: the loop ends, or takes one more turn.
FileWriteCb ==
    /\ cl.cb
    /\ IF ~BelowLowWater(cl)
       THEN cl' = [cl EXCEPT !.cb = FALSE]
       ELSE \E rd \in ReadResults(cl) :
            \E q \in 0..(IF rd.rv > 0 THEN rd.rv ELSE 1) :
                cl' = file_write_cb(cl, rd, q)
    /\ UNCHANGED <<phase, conf, index_files, dispatch_handlers, req, pi, tags, canon, dirents>>

\* The socket takes d of the queued bytes.
Drain ==
    /\ ~cl.cb /\ cl.conn = "open" /\ cl.data_bytes > 0
    /\ \E d \in 1..cl.data_bytes : cl' = [cl EXCEPT !.data_bytes = @ - d]
    /\ UNCHANGED <<phase, conf, index_files, dispatch_handlers, req, pi, tags, canon, dirents>>

\* The stream notifies the client that it can write: cl->dispatch.write_cb runs.
WriteReady ==
    /\ ~cl.cb /\ cl.conn = "open" /\ cl.write_cb
    /\ cl' = [cl EXCEPT !.cb = TRUE]
    /\ UNCHANGED <<phase, conf, index_files, dispatch_handlers, req, pi, tags, canon, dirents>>

\* The client disconnects.
ClientClose ==
    /\ ~cl.cb /\ cl.conn = "open" /\ phase = "serving"
    /\ cl' = client_close(cl)
    /\ UNCHANGED <<phase, conf, index_files, dispatch_handlers, req, pi, tags, canon, dirents>>

\* ------------------------------------------------- the file module alone

\* URLs of the entries of the document root /r.
FileUrls == { <<c.sl, c.e>>, <<c.sl, c.f>>, <<c.sl, c.a, c.sl>>, <<c.sl>>,
              <<c.sl, c.a, c.sl, c.e>>, <<c.sl, c.b, c.sl>> }

InitFile ==
    /\ phase = "serving"
    /\ conf \in { [docroot |-> <<c.sl, c.r>>, error_handler |-> <<>>, no_dirlists |-> n] :
                  n \in BOOLEAN }
    /\ index_files = << <<c.i>> >>
    /\ dispatch_handlers = <<>>
    /\ req = NoReq
    /\ pi = NoPathInfo
    /\ cl = NoCl
    /\ tags \in { [NoTags EXCEPT !.ptr = n] : n \in PointerSizes }
    /\ canon = NoCanon
    /\ dirents = {}

(* uh_file_request(cl, url, pi, tb) for a resolved entry, any method and    *)
(* any combination of the conditional headers.                              *)
FileRequest ==
    /\ phase = "serving" /\ ~req.got /\ cl.conn = "open"
    /\ \E u \in FileUrls : \E pinfo \in {uh_path_lookup(u, conf.docroot, index_files)} :
       /\ ~pinfo.null /\ ~pinfo.redirected
       /\ \E m \in Methods, ok \in BOOLEAN, h \in AllHeaders(Tag(pinfo.st, tags.ptr)) :
          /\ req' = [got |-> TRUE, url |-> u, method |-> m, hdr |-> h, auth |-> TRUE, openok |-> ok]
          /\ pi' = pinfo
          /\ cl' = uh_file_request(cl, m, h, pinfo, ok, tags.ptr, conf.no_dirlists)
    /\ UNCHANGED <<phase, conf, index_files, dispatch_handlers, tags, canon, dirents>>

NextFile == FileRequest \/ FileWriteCb \/ Drain \/ WriteReady \/ ClientClose

SpecFile == InitFile /\ [][NextFile]_vars

\* ------------------------------------------------------ the whole server

\* The request URLs of the server run.
ReqUrls == { <<c.sl, c.e>>, <<c.sl, c.f>>, <<c.sl, c.a>>, <<c.sl, c.a, c.sl>>,
             <<c.sl, c.a, c.qm, c.e>>, <<c.sl, c.sl, c.a>>, <<c.sl, c.v>>,
             <<c.sl, c.pct>>, <<c.sl, c.dot, c.dot, c.sl, c.a>>, <<c.sl, c.d2>> }

\* The error documents a configuration names: none, a file, a missing entry.
ErrorHandlers == { <<>>, <<c.sl, c.a, c.sl, c.i>>, <<c.sl, c.d2>> }

Init ==
    /\ phase = "startup"
    /\ conf \in { [docroot |-> <<c.sl, c.r>>, error_handler |-> eh, no_dirlists |-> n] :
                  eh \in ErrorHandlers, n \in BOOLEAN }
    /\ index_files = <<>>
    /\ dispatch_handlers = <<>>
    /\ req = NoReq
    /\ pi = NoPathInfo
    /\ cl = NoCl
    /\ tags = NoTags
    /\ canon = NoCanon
    /\ dirents = {}

\* uh_index_add(filename)
IndexAdd ==
    /\ phase = "startup" /\ Len(index_files) < MaxIndex
    /\ \E n \in IndexNames : index_files' = Append(index_files, n)
    /\ UNCHANGED <<phase, conf, dispatch_handlers, req, pi, cl, tags, canon, dirents>>

\* uh_dispatch_add(d)
DispatchAdd ==
    /\ phase = "startup" /\ Len(dispatch_handlers) < MaxHandlers
    /\ \E d \in HandlerPool :
        /\ \A n \in 1..Len(dispatch_handlers) : dispatch_handlers[n] # d
        /\ dispatch_handlers' = Append(dispatch_handlers, d)
    /\ UNCHANGED <<phase, conf, index_files, req, pi, cl, tags, canon, dirents>>

\* Startup is over: the server accepts the client.
Serve ==
    /\ phase = "startup"
    /\ phase' = "serving"
    /\ UNCHANGED <<conf, index_files, dispatch_handlers, req, pi, cl, tags, canon, dirents>>

\* uh_handle_request(cl) for the request the client sent.
HandleRequest ==
    /\ phase = "serving" /\ ~req.got /\ cl.conn = "open"
    /\ \E u \in ReqUrls, m \in Methods, au \in BOOLEAN, ok \in BOOLEAN :
       \E h \in FewHeaders(Tag(uh_path_lookup(u, conf.docroot, index_files).st, tags.ptr)) :
       \E r \in {[got |-> TRUE, url |-> u, method |-> m, hdr |-> h, auth |-> au, openok |-> ok]} :
       \E res \in {uh_handle_request(cl, r, conf, index_files, dispatch_handlers, tags.ptr)} :
          /\ req' = r
          /\ pi' = res.pi
          /\ cl' = res.cl
    /\ UNCHANGED <<phase, conf, index_files, dispatch_handlers, tags, canon, dirents>>

Next ==
    \/ IndexAdd \/ DispatchAdd \/ Serve \/ HandleRequest
    \/ FileWriteCb \/ Drain \/ WriteReady \/ ClientClose

Spec == Init /\ [][Next]_vars

\* ------------------------------------------- the entity-tag lists alone

\* Most members of an If-Match or If-None-Match list.
MaxMembers == 2

\* What separates the members of a list: ",", " " and ", ".
ListSeps == { <<c.comma>>, <<c.sp>>, <<c.comma, c.sp>> }

\* The lists of n + 1 members drawn from '*', the file's tag and another tag.
RECURSIVE TagLists(_, _)
TagLists(tag, n) ==
    IF n = 0 THEN { <<c.star>>, tag, <<c.a>> }
    ELSE { l \o sep \o m : l \in TagLists(tag, n - 1), sep \in ListSeps,
                           m \in { <<c.star>>, tag, <<c.a>> } }

\* Requests whose one conditional header is If-Match or If-None-Match with a list.
ListHeaders(tag) ==
    UNION { { [NoHeaders EXCEPT !.im = [present |-> TRUE, val |-> l]],
              [NoHeaders EXCEPT !.inm = [present |-> TRUE, val |-> l]] } :
            l \in UNION { TagLists(tag, n) : n \in 0..(MaxMembers - 1) } }

\* uh_file_request(cl, url, pi, tb) for the file /e and a list header.
ListRequest ==
    /\ phase = "serving" /\ ~req.got /\ cl.conn = "open"
    /\ \E pinfo \in {uh_path_lookup(<<c.sl, c.e>>, conf.docroot, index_files)} :
       \E m \in Methods, h \in ListHeaders(Tag(pinfo.st, tags.ptr)) :
          /\ req' = [got |-> TRUE, url |-> <<c.sl, c.e>>, method |-> m, hdr |-> h,
                     auth |-> TRUE, openok |-> TRUE]
          /\ pi' = pinfo
          /\ cl' = uh_file_request(cl, m, h, pinfo, TRUE, tags.ptr, conf.no_dirlists)
    /\ UNCHANGED <<phase, conf, index_files, dispatch_handlers, tags, canon, dirents>>

NextList == ListRequest \/ FileWriteCb \/ Drain \/ WriteReady \/ ClientClose

SpecList == InitFile /\ [][NextList]_vars

\* ------------------------------------------- the directory lister alone

\* The names a listed directory may hold besides "." and "..": Z, a, a.txt, b.txt.
DirNames == { <<c.Z>>, <<c.a>>, <<c.a, c.dot, c.t, c.x, c.t>>, <<c.b, c.dot, c.t, c.x, c.t>> }

(* What an entry can be: a directory others may or may not traverse, a     *)
(* regular file others may or may not read, either of them on a filesystem  *)
(* whose readdir leaves d_type DT_UNKNOWN, a symbolic link to a directory,  *)
(* a dangling symbolic link (stat fails).                                   *)
DirKinds ==
    { [d_type |-> DT_DIR,     ok |-> TRUE,  isdir |-> TRUE,  roth |-> TRUE,  xoth |-> TRUE],
      [d_type |-> DT_DIR,     ok |-> TRUE,  isdir |-> TRUE,  roth |-> FALSE, xoth |-> FALSE],
      [d_type |-> DT_REG,     ok |-> TRUE,  isdir |-> FALSE, roth |-> TRUE,  xoth |-> FALSE],
      [d_type |-> DT_REG,     ok |-> TRUE,  isdir |-> FALSE, roth |-> FALSE, xoth |-> FALSE],
      [d_type |-> DT_UNKNOWN, ok |-> TRUE,  isdir |-> TRUE,  roth |-> TRUE,  xoth |-> TRUE],
      [d_type |-> DT_UNKNOWN, ok |-> TRUE,  isdir |-> FALSE, roth |-> TRUE,  xoth |-> FALSE],
      [d_type |-> DT_LNK,     ok |-> TRUE,  isdir |-> TRUE,  roth |-> TRUE,  xoth |-> TRUE],
      [d_type |-> DT_LNK,     ok |-> FALSE, isdir |-> FALSE, roth |-> FALSE, xoth |-> FALSE] }

Dirent(n, k) == [name |-> n, d_type |-> k.d_type, ok |-> k.ok, isdir |-> k.isdir,
                 roth |-> k.roth, xoth |-> k.xoth]

\* The directories listed: "." and "..", and any of DirNames, each of some kind.
Directories ==
    { { Dirent(n, CHOOSE k \in DirKinds : k.d_type = DT_DIR /\ k.xoth) : n \in { <<c.dot>>, <<c.dot, c.dot>> } }
      \cup { Dirent(n, kind[n]) : n \in names } :
        names \in SUBSET DirNames, kind \in [DirNames -> DirKinds] }

InitDir ==
    /\ phase = "dir"
    /\ conf = [docroot |-> <<c.sl, c.r>>, error_handler |-> <<>>, no_dirlists |-> FALSE]
    /\ index_files = <<>>
    /\ dispatch_handlers = <<>>
    /\ req = NoReq
    /\ pi = NoPathInfo
    /\ cl = NoCl
    /\ tags = NoTags
    /\ canon = NoCanon
    /\ dirents \in Directories

\* uh_file_dirlist(cl, pi) on a directory that holds dirents.
DirList ==
    /\ phase = "dir"
    /\ cl' = uh_file_dirlist(cl, dirents)
    /\ phase' = "listed"
    /\ UNCHANGED <<conf, index_files, dispatch_handlers, req, pi, tags, canon, dirents>>

NextDir == DirList

SpecDir == InitDir /\ [][NextDir]_vars

\* ------------------------------------------------- canonpath on its own

\* Longest short path of the canonpath run, in characters after the first '/'.
MaxCanonLen == 6

\* The absolute paths of '/', '.' and a name character, up to MaxCanonLen long.
ShortPaths ==
    { <<c.sl>> \o t : t \in UNION { [1..n -> {c.sl, c.dot, c.a}] : n \in 0..MaxCanonLen } }

\* The path "/aaa..." of n characters.
LongName(n) == [k \in 1..n |-> IF k = 1 THEN c.sl ELSE c.a]

(* Paths as long as uh_buf can hold: a long name and a short end that       *)
(* reaches the PATH_MAX - 2 characters canonpath reads, or goes beyond.     *)
LongPaths ==
    { LongName(PATH_MAX - 5) \o t : t \in { <<c.sl, c.a>>, <<c.sl, c.a, c.a, c.a>>,
                                            <<c.sl, c.dot, c.dot, c.a>>, <<c.sl, c.dot, c.a>> } }

InitCanon ==
    /\ phase = "canon"
    /\ conf = [docroot |-> <<c.sl, c.r>>, error_handler |-> <<>>, no_dirlists |-> FALSE]
    /\ index_files = <<>>
    /\ dispatch_handlers = <<>>
    /\ req = NoReq
    /\ pi = NoPathInfo
    /\ cl = NoCl
    /\ tags = NoTags
    /\ canon \in { [NoCanon EXCEPT !.path = p] : p \in ShortPaths \cup LongPaths }
    /\ dirents = {}

\* canonpath(path, buf), and canonpath again on what it wrote
Canonicalize ==
    /\ phase = "canon"
    /\ \E once \in {canonpath(canon.path)} :
        canon' = [canon EXCEPT !.once = once, !.twice = canonpath(once)]
    /\ phase' = "canonical"
    /\ UNCHANGED <<conf, index_files, dispatch_handlers, req, pi, cl, tags, dirents>>

NextCanon == Canonicalize

SpecCanon == InitCanon /\ [][NextCanon]_vars

\* ---------------------------------------------------------------- C1

IsPrefixOf(p, s) == Len(p) <= Len(s) /\ SubSeq(s, 1, Len(p)) = p

(* C1: whenever uh_path_lookup returns a result, the physical path it      *)
(* computed (with the trailing '/' or the index file name appended) is the  *)
(* document root or begins with the document root followed by '/'.         *)
C1_Containment ==
    (phase = "looked" /\ ~pi.null) =>
        \/ pi.path_phys = conf.docroot
        \/ IsPrefixOf(Append(conf.docroot, c.sl), pi.path_phys)

\* A URL with an escape and a '..' segment, and no query, that resolved.
C1_Witness ==
    /\ phase = "looked" /\ ~pi.null
    /\ \E k \in 1..Len(req.url) : req.url[k] = c.pct
    /\ \A k \in 1..Len(req.url) : req.url[k] # c.qm
    /\ \E k \in 1..(Len(req.url) - 1) : req.url[k] = c.dot /\ req.url[k + 1] = c.dot
    /\ Len(pi.path_phys) > Len(conf.docroot)

\* ---------------------------------------------------------------- C2

(* C2: the descriptor uh_file_request opened for a regular file is never    *)
(* closed twice, and it has been closed exactly once as soon as the request *)
(* has left by any of its exits: a failed precondition, HEAD, the end of    *)
(* the file, a read that failed with an error, the client's disconnect.    *)
C2_ClosedOnEveryExit ==
    /\ cl.closes <= cl.opens
    /\ (cl.done > 0 \/ cl.conn = "closed" \/ cl.errs > 0) => cl.closes = cl.opens

\* ---------------------------------------------------------------- C3

\* A GET of a regular file that passed every precondition: uh_file_data wrote 200.
Streamed == req.got /\ req.method = "GET" /\ cl.opens = 1 /\ cl.status = <<200>>

(* C3: for a GET of a regular file of N bytes that passed the preconditions *)
(* and whose reads fail with EINTR at most, at every point of every         *)
(* interleaving of loop turns, drains and write-ready notifications the     *)
(* bytes enqueued are the first bytes of the file in order; the request is  *)
(* finalized at most once, and when it is, all N bytes have been enqueued   *)
(* and the descriptor has been closed exactly once, not before.            *)
C3_StreamsWholeFile ==
    (Streamed /\ cl.errs = 0) =>
        /\ IsPrefixOf(cl.body, Content(cl.size))
        /\ cl.done <= 1
        /\ cl.done = 1 => (cl.body = Content(cl.size) /\ cl.closes = 1)
        /\ (cl.done = 0 /\ cl.conn = "open") => cl.closes = 0

\* A file of three bytes (two chunks) went out whole, one read retried after EINTR.
C3_Witness ==
    /\ Streamed /\ cl.errs = 0 /\ cl.faults = 1
    /\ cl.size = 3 /\ cl.body = <<1, 2, 3>>
    /\ cl.done = 1 /\ cl.closes = 1 /\ cl.conn = "open"

\* ---------------------------------------------------------------- C4

\* The request reached uh_file_data with an If-Range header.
IfRangeRequest == req.got /\ cl.opens = 1 /\ req.hdr.ir

(* C4 as the specification words it: a request with If-Range is answered    *)
(* 412, whatever its other conditional headers.                            *)
C4_AlwaysPreconditionFailed == IfRangeRequest => cl.status = <<412>>

(* C4, amended: a request with If-Range for a file uh_file_data serves is   *)
(* answered 304 when its If-Modified-Since header, which is checked first,  *)
(* names a time that is not before the file's, and 412 otherwise; it is     *)
(* never answered 200, no byte of the file is enqueued, and the request is  *)
(* over.                                                                    *)
C4_IfRangeRefused ==
    IfRangeRequest =>
        /\ cl.status = IF req.hdr.ims.present /\ uh_file_date2unix(req.hdr.ims) >= pi.st.mtime
                       THEN <<304>> ELSE <<412>>
        /\ cl.body = <<>> /\ cl.done = 1 /\ cl.closes = 1

\* If-Range with every other conditional header present, answered 412.
C4_Witness ==
    /\ IfRangeRequest /\ cl.status = <<412>>
    /\ req.hdr.ims.present /\ req.hdr.im.present /\ req.hdr.ius.present /\ req.hdr.inm.present

\* ---------------------------------------------------------------- C5

\* The checks uh_file_data makes before If-None-Match let the request through.
EarlierChecksPass ==
    /\ ~req.hdr.ims.present \/ uh_file_date2unix(req.hdr.ims) < pi.st.mtime
    /\ ~req.hdr.im.present \/ req.hdr.im.val \in {<<c.star>>, Tag(pi.st, tags.ptr)}
    /\ ~req.hdr.ir
    /\ ~req.hdr.ius.present \/ uh_file_date2unix(req.hdr.ius) > pi.st.mtime

(* C5: a request with If-None-Match: * for a file uh_file_data serves, which *)
(* the earlier checks let through, is answered 304 when its method is GET   *)
(* and 412 when it is POST or DELETE; no byte of the file is enqueued.      *)
C5_IfNoneMatchStar ==
    (req.got /\ cl.opens = 1 /\ req.hdr.inm = [present |-> TRUE, val |-> <<c.star>>]
             /\ EarlierChecksPass) =>
        /\ req.method = "GET" => cl.status = <<304>>
        /\ req.method \in {"POST", "DELETE"} => cl.status = <<412>>
        /\ cl.body = <<>> /\ cl.done = 1

\* DELETE with If-None-Match: * and an If-Match that names the file's tag: 412.
C5_Witness ==
    /\ req.got /\ cl.opens = 1 /\ req.method = "DELETE"
    /\ req.hdr.inm = [present |-> TRUE, val |-> <<c.star>>]
    /\ req.hdr.im = [present |-> TRUE, val |-> Tag(pi.st, tags.ptr)]
    /\ EarlierChecksPass
    /\ cl.status = <<412>> /\ cl.body = <<>>

\* ---------------------------------------------------------------- C6

\* The request URL up to its '?', and from its '?' on.
OrigPath(url)  == IF StrChr(url, c.qm) < 0 THEN url ELSE Take(url, StrChr(url, c.qm))
OrigQuery(url) == IF StrChr(url, c.qm) < 0 THEN <<>> ELSE Drop(url, StrChr(url, c.qm))

\* No URL handler took the request and its URL resolved to a directory asked
\* for without the trailing '/'.
RedirectedRequest ==
    /\ req.got /\ cl.invoked = 0
    /\ ~uh_path_lookup(req.url, conf.docroot, index_files).null
    /\ uh_path_lookup(req.url, conf.docroot, index_files).redirected

(* C6: a request that resolves to a directory and whose path has no         *)
(* trailing '/' is answered by exactly one 302 whose Location is the        *)
(* request's path as sent, one '/', and the query string as sent; the       *)
(* result is marked redirected, and no authorization check, path dispatch,  *)
(* listing or file serving follows.                                         *)
C6_RedirectSameUrl ==
    RedirectedRequest =>
        /\ cl.status = <<302>>
        /\ cl.location = OrigPath(req.url) \o <<c.sl>> \o OrigQuery(req.url)
        /\ pi.redirected
        /\ cl.log = <<"url_dispatch", "resolve_url">>
        /\ ~cl.listing /\ cl.opens = 0 /\ cl.body = <<>> /\ cl.done = 1

\* ---------------------------------------------------------------- C7

(* C7: the tags uh_file_mktag makes of two (inode, size, mtime) triples are *)
(* equal when the triples are equal and differ when the triples differ.     *)
C7_TagInjective ==
    phase = "tagged" =>
        /\ tags.a = tags.b => tags.ta = tags.tb
        /\ tags.a # tags.b => tags.ta # tags.tb

\* ---------------------------------------------------------------- C8

InSeq(x, q) == \E k \in 1..Len(q) : q[k] = x

\* Some handler with a URL predicate accepts the request URL.
UrlMatch == \E n \in 1..Len(dispatch_handlers) :
                Accepts(dispatch_handlers[n], req.url, NoPathInfo, FALSE)

(* C8: the handler invoked for a request is the earliest registered one of  *)
(* the consulted family whose predicate accepts it, no handler of that      *)
(* family registered after it has its predicate called, and a request some  *)
(* consulted handler accepts is not left to a later stage.                  *)
C8_FirstMatchWins ==
    req.got =>
        /\ \A n \in 1..Len(dispatch_handlers) :
            cl.invoked = dispatch_handlers[n].id =>
                /\ Accepts(dispatch_handlers[n], req.url, pi, dispatch_handlers[n].kind = "path")
                /\ \A j \in 1..(n - 1) :
                    ~Accepts(dispatch_handlers[j], req.url, pi, dispatch_handlers[n].kind = "path")
                /\ \A j \in (n + 1)..Len(dispatch_handlers) :
                    dispatch_handlers[j].kind = dispatch_handlers[n].kind
                        => ~InSeq(dispatch_handlers[j].id, cl.checked)
        /\ UrlMatch => cl.invoked # 0
        /\ (InSeq("path_dispatch", cl.log)
              /\ \E n \in 1..Len(dispatch_handlers) : Accepts(dispatch_handlers[n], req.url, pi, TRUE))
           => cl.invoked # 0

\* Two path handlers that both accept the resolved path: the first one ran,
\* the second one's predicate was not called.
C8_Witness ==
    /\ req.got /\ Len(dispatch_handlers) = 2
    /\ dispatch_handlers[1].kind = "path" /\ dispatch_handlers[2].kind = "path"
    /\ Accepts(dispatch_handlers[1], req.url, pi, TRUE)
    /\ Accepts(dispatch_handlers[2], req.url, pi, TRUE)
    /\ cl.invoked = dispatch_handlers[1].id
    /\ cl.checked = <<dispatch_handlers[1].id>>

\* ---------------------------------------------------------------- C9

\* Stage x of the request ran, and ran before stage y.
Before(x, y) == \E i, j \in 1..Len(cl.log) : i < j /\ cl.log[i] = x /\ cl.log[j] = y

\* What resolving the request URL, and the error document's URL, gives.
UrlLookup == uh_path_lookup(req.url, conf.docroot, index_files)
ErrLookup == IF conf.error_handler = <<>> THEN NoPathInfo
             ELSE uh_path_lookup(conf.error_handler, conf.docroot, index_files)

(* C9: uh_handle_request consults the URL handlers first; a matching one is *)
(* invoked and nothing is resolved; the request URL is resolved only when   *)
(* none matched, the error document only after the request URL failed to    *)
(* resolve, and 404 is sent only after both failed, as the last thing; a    *)
(* stage that handled the request is followed by no later stage.            *)
C9_StageOrder ==
    req.got =>
        LET matched == UrlMatch
            failed1 == UrlLookup.null
            failed2 == ErrLookup.null
        IN
        /\ cl.log[1] = "url_dispatch"
        /\ matched => (cl.log = <<"url_dispatch", "handler">> /\ pi = NoPathInfo)
        /\ InSeq("resolve_url", cl.log) <=> ~matched
        /\ InSeq("resolve_error_handler", cl.log) <=> (~matched /\ failed1)
        /\ InSeq("resolve_error_handler", cl.log) => Before("resolve_url", "resolve_error_handler")
        /\ InSeq("not_found", cl.log) <=> (~matched /\ failed1 /\ failed2)
        /\ InSeq("not_found", cl.log) =>
            /\ Before("resolve_error_handler", "not_found")
            /\ cl.log[Len(cl.log)] = "not_found"
            /\ cl.status = <<404>>
        /\ \A i, j \in 1..Len(cl.log) : i # j => cl.log[i] # cl.log[j]

\* With a handler registered and an error document configured, all four
\* stages ran and the request ended in 404.
C9_Witness ==
    /\ req.got /\ Len(dispatch_handlers) > 0 /\ dispatch_handlers[1].kind = "url"
    /\ conf.error_handler # <<>>
    /\ cl.log = <<"url_dispatch", "resolve_url", "resolve_error_handler", "not_found">>
    /\ cl.checked = <<dispatch_handlers[1].id>>

\* --------------------------------------------------------------- C10

\* No URL handler matched and the request URL did not resolve.
ResolutionFailed == req.got /\ ~UrlMatch /\ UrlLookup.null

WithoutBadDates(h) ==
    [h EXCEPT !.ims = IF h.ims.present /\ ~h.ims.valid THEN NoDate ELSE @,
              !.ius = IF h.ius.present /\ ~h.ius.valid THEN NoDate ELSE @]

(* C11: an If-Modified-Since or If-Unmodified-Since header whose value is   *)
(* not a date counts as absent: the statuses written for the request are    *)
(* those written for the same request without that header.                  *)
C11_BadDateIsAbsent ==
    (req.got /\ cl.opens = 1) =>
        cl.status = uh_file_data(NoCl, req.method, WithoutBadDates(req.hdr), pi.st, tags.ptr).status

\* --------------------------------------------------------------- C12

\* The members of a comma/space-separated list: its runs of other characters.
RECURSIVE Members(_, _, _)
Members(val, k, cur) ==
    IF k > Len(val) THEN (IF cur = <<>> THEN {} ELSE {cur})
    ELSE IF val[k] \in {c.sp, c.comma}
         THEN (IF cur = <<>> THEN {} ELSE {cur}) \cup Members(val, k + 1, <<>>)
    ELSE Members(val, k + 1, Append(cur, val[k]))

\* Some member of the list is '*' or the file's entity tag.
AnyMemberMatches(val) ==
    \E t \in Members(val, 1, <<>>) : t = <<c.star>> \/ t = Tag(pi.st, tags.ptr)

(* C12: a request whose If-Match list has a member that is '*' or the       *)
(* file's entity tag, at any position, passes the check (200); one whose    *)
(* list has no such member is answered 412.                                 *)
C12_IfMatchAnyMember ==
    (req.got /\ cl.opens = 1 /\ req.hdr.im.present) =>
        cl.status = IF AnyMemberMatches(req.hdr.im.val) THEN <<200>> ELSE <<412>>

\* --------------------------------------------------------------- C13

(* C13: a request whose If-None-Match list has a member that is '*' or the  *)
(* file's entity tag, at any position, is answered 304 when its method is   *)
(* GET or HEAD and 412 otherwise; one whose list has no such member passes  *)
(* the check (200).                                                         *)
C13_IfNoneMatchAnyMember ==
    (req.got /\ cl.opens = 1 /\ req.hdr.inm.present) =>
        cl.status = IF ~AnyMemberMatches(req.hdr.inm.val) THEN <<200>>
                    ELSE IF req.method \in {"GET", "HEAD"} THEN <<304>> ELSE <<412>>

\* --------------------------------------------------------------- C14

\* The checks of uh_file_data in their order.
CheckOrder == <<"if_modified_since", "if_match", "if_range", "if_unmodified_since",
                "if_none_match">>

\* Whether the k-th check fails for the request, by its header alone.
CheckFails(k) ==
    CASE k = 1 -> req.hdr.ims.present /\ uh_file_date2unix(req.hdr.ims) >= pi.st.mtime
      [] k = 2 -> req.hdr.im.present /\ req.hdr.im.val \notin {<<c.star>>, Tag(pi.st, tags.ptr)}
      [] k = 3 -> req.hdr.ir
      [] k = 4 -> req.hdr.ius.present /\ uh_file_date2unix(req.hdr.ius) <= pi.st.mtime
      [] k = 5 -> req.hdr.inm.present /\ req.hdr.inm.val \in {<<c.star>>, Tag(pi.st, tags.ptr)}

\* The status the k-th check answers with when it fails.
CheckStatus(k) ==
    IF k = 1 \/ (k = 5 /\ req.method \in {"GET", "HEAD"}) THEN 304 ELSE 412

\* The checks that ran: the request's trail after "file_request".
ChecksRun == SubSeq(cl.log, 2, Len(cl.log))

(* C14: the checks run in the order If-Modified-Since, If-Match, If-Range,  *)
(* If-Unmodified-Since, If-None-Match and stop at the first that fails:     *)
(* that check's status (304 or 412) is the one status line written, no      *)
(* later check runs, no file byte is enqueued; 200 is written only when     *)
(* all five ran and passed.                                                 *)
C14_OrderAndShortCircuit ==
    (req.got /\ cl.opens = 1) =>
        /\ Len(cl.status) = 1
        /\ \A k \in 1..5 :
            (CheckFails(k) /\ \A j \in 1..(k - 1) : ~CheckFails(j)) =>
                /\ ChecksRun = SubSeq(CheckOrder, 1, k)
                /\ cl.status = <<CheckStatus(k)>>
                /\ cl.body = <<>> /\ cl.done = 1
        /\ (\A k \in 1..5 : ~CheckFails(k)) <=> cl.status = <<200>>
        /\ cl.status = <<200>> => ChecksRun = CheckOrder

\* If-Match fails and three later headers would fail too: 412 after two checks.
C14_Witness ==
    /\ req.got /\ cl.opens = 1
    /\ ~CheckFails(1) /\ req.hdr.ims.present
    /\ CheckFails(2) /\ CheckFails(3) /\ CheckFails(4) /\ CheckFails(5)
    /\ req.method = "GET"
    /\ cl.status = <<412>> /\ ChecksRun = <<"if_modified_since", "if_match">>

\* --------------------------------------------------------------- C15

\* The path has a segment "." or ".." (a '/' followed by it and by '/' or the end).
HasDotSegment(p) ==
    \E k \in 0..(Len(p) - 1) :
        /\ At(p, k) = c.sl /\ At(p, k + 1) = c.dot
        /\ \/ At(p, k + 2) \in {c.sl, 0}
           \/ At(p, k + 2) = c.dot /\ At(p, k + 3) \in {c.sl, 0}

(* A canonical path: absolute, no '.' or '..' segment, no repeated '/', no  *)
(* trailing '/' unless it is "/".                                           *)
IsCanonical(p) ==
    /\ Len(p) > 0 /\ p[1] = c.sl
    /\ \A k \in 1..(Len(p) - 1) : ~(p[k] = c.sl /\ p[k + 1] = c.sl)
    /\ Len(p) > 1 => p[Len(p)] # c.sl
    /\ ~HasDotSegment(p)

(* C15: for every absolute path, canonpath of what canonpath returned is    *)
(* what canonpath returned, and canonpath returns a canonical path          *)
(* unchanged.                                                               *)
C15_Idempotent ==
    phase = "canonical" =>
        /\ canon.twice = canon.once
        /\ IsCanonical(canon.path) => canon.once = canon.path

\* ---------------------------------------------------------------- C16

\* The entry of the listed directory that has the name of an emitted entry.
EntryOf(e) == CHOOSE f \in dirents : f.name = e.name

(* C16: the entries a directory listing emits have all directories before   *)
(* all files, are in alphabetic order within each group, and never include  *)
(* the self-reference entry '.'.                                            *)
C16_ListingOrder ==
    phase = "listed" =>
        /\ \A i \in 1..Len(cl.entries) : cl.entries[i].name # <<c.dot>>
        /\ \A i, j \in 1..Len(cl.entries) :
            i < j =>
                /\ ~(~EntryOf(cl.entries[i]).isdir /\ EntryOf(cl.entries[j]).isdir)
                /\ EntryOf(cl.entries[i]).isdir = EntryOf(cl.entries[j]).isdir
                       => strcmp(cl.entries[i].name, cl.entries[j].name) < 0

\* The same where readdir reports every entry's type (DT_DIR, DT_REG).
C16_ListingOrderTyped ==
    (phase = "listed" /\ \A f \in dirents : f.d_type = (IF f.isdir THEN DT_DIR ELSE DT_REG))
        => /\ \A i \in 1..Len(cl.entries) : cl.entries[i].name # <<c.dot>>
           /\ \A i, j \in 1..Len(cl.entries) :
                i < j =>
                    /\ ~(~EntryOf(cl.entries[i]).isdir /\ EntryOf(cl.entries[j]).isdir)
                    /\ EntryOf(cl.entries[i]).isdir = EntryOf(cl.entries[j]).isdir
                           => strcmp(cl.entries[i].name, cl.entries[j].name) < 0

\* The example: directories Z and a, files a.txt and b.txt, all listable.
C16_Example ==
    /\ phase = "listed"
    /\ { f.name : f \in dirents } = DirNames \cup { <<c.dot>>, <<c.dot, c.dot>> }
    /\ \A f \in dirents :
        /\ f.isdir = (f.name \in { <<c.Z>>, <<c.a>>, <<c.dot>>, <<c.dot, c.dot>> })
        /\ f.d_type = (IF f.isdir THEN DT_DIR ELSE DT_REG)
        /\ f.ok /\ (IF f.isdir THEN f.xoth ELSE f.roth)
    /\ [i \in 1..Len(cl.entries) |-> cl.entries[i].name]
         = << <<c.dot, c.dot>>, <<c.Z>>, <<c.a>>, <<c.a, c.dot, c.t, c.x, c.t>>,
              <<c.b, c.dot, c.t, c.x, c.t>> >>

\* ---------------------------------------------------------------- C17

(* C17: while streaming, a read that fails with EINTR is retried at once    *)
(* and enqueues nothing; a read that fails with any other error ends the    *)
(* stream: nothing is enqueued for it, the request is finalized, and no     *)
(* further read is made on the file.                                        *)
C17_ReadFailures ==
    [][ /\ (cl'.faults = cl.faults + 1 /\ cl'.errs = cl.errs)
            => /\ cl'.body = cl.body /\ cl'.data_bytes = cl.data_bytes
               /\ cl'.done = cl.done /\ cl'.cb
        /\ (cl'.faults = cl.faults + 1 /\ cl'.errs = cl.errs + 1)
            => /\ cl'.body = cl.body /\ cl'.data_bytes = cl.data_bytes
               /\ cl'.done = cl.done + 1 /\ ~cl'.cb
        /\ cl.errs > 0
            => cl'.off = cl.off /\ cl'.body = cl.body /\ cl'.faults = cl.faults
      ]_vars

\* The part of C17 about EINTR alone.
C17_EintrRetried ==
    [][ (cl'.faults = cl.faults + 1 /\ cl'.errs = cl.errs)
            => /\ cl'.body = cl.body /\ cl'.data_bytes = cl.data_bytes
               /\ cl'.done = cl.done /\ cl'.cb
      ]_vars

\* ---------------------------------------------------------------- C18

(* C18: in every state of a file transfer, file_write_cb reads the file     *)
(* (and enqueues what it read) only when fewer bytes than the low-water     *)
(* mark are queued; so under every interleaving of write-ready              *)
(* notifications and drains the queued count stays below the low-water     *)
(* mark plus one chunk.                                                     *)
C18_Backpressure ==
    /\ [](cl.data_bytes < LowWater + ChunkSize)
    /\ [][ (cl'.off # cl.off \/ cl'.body # cl.body \/ cl'.faults # cl.faults)
               => (cl.cb /\ cl.data_bytes < LowWater) ]_vars

(* The bound is met: a chunk was enqueued with one byte less than the       *)
(* low-water mark queued and none of it went out, and the loop has stopped  *)
(* with the file not yet sent whole.                                        *)
C18_Witness ==
    /\ Streamed /\ cl.errs = 0 /\ ~cl.cb /\ cl.done = 0 /\ cl.conn = "open"
    /\ cl.data_bytes = LowWater - 1 + ChunkSize
    /\ cl.off = cl.data_bytes

\* ---------------------------------------------------------------- C19

\* The decoded request path under the document root (uh_buf), when decoding succeeds.
DecodedPath ==
    conf.docroot \o SplitUrl(req.url, StrChr(req.url, c.qm),
                             UH_BUF_SIZE - Len(conf.docroot) - 1).dec.buf

DecodeOk ==
    SplitUrl(req.url, StrChr(req.url, c.qm), UH_BUF_SIZE - Len(conf.docroot) - 1).dec.rv >= 0

(* The offsets of the '/' of buf before which an entry exists that is the    *)
(* document root or lies under it.                                          *)
ExistingCuts(buf) ==
    { i \in Len(conf.docroot)..(Len(buf) - 1) :
        /\ At(buf, i) = c.sl /\ stat(Take(buf, i)).ok
        /\ WithinDocroot(Take(buf, i), conf.docroot) }

\* The longest leading portion of buf for which an entry exists, as an offset.
LongestCut(buf) ==
    CHOOSE i \in ExistingCuts(buf) : \A j \in ExistingCuts(buf) : j <= i

(* The request path is canonical, no entry exists for all of it, and an     *)
(* entry exists for a leading portion of it.                                *)
HasExtraSegments ==
    /\ phase = "looked" /\ DecodeOk
    /\ IsCanonical(DecodedPath) /\ ~stat(DecodedPath).ok
    /\ ExistingCuts(DecodedPath) # {}

(* C19: when the decoded request path is an existing entry followed by     *)
(* further segments that do not exist, uh_path_lookup resolves to the      *)
(* longest leading portion for which an entry exists, with the rest as the *)
(* extra path info: a regular file is returned with the non-empty suffix,  *)
(* a directory with a non-empty suffix yields no result.                   *)
C19_ExtraPathInfo ==
    HasExtraSegments =>
        IF stat(Take(DecodedPath, LongestCut(DecodedPath))).st.type = "reg"
        THEN /\ ~pi.null
             /\ pi.phys = Take(DecodedPath, LongestCut(DecodedPath))
             /\ pi.info = Drop(DecodedPath, LongestCut(DecodedPath))
             /\ pi.info # <<>>
        ELSE pi.null

\* The part of C19 about a directory followed by segments that do not exist.
C19_DirectoryWithSuffix ==
    (HasExtraSegments /\ stat(Take(DecodedPath, LongestCut(DecodedPath))).st.type = "dir")
        => pi.null

\* Whatever uh_path_lookup returns has no extra path info.
C19_NeverPathInfo == (phase = "looked" /\ ~pi.null) => pi.info = <<>>

\* ---------------------------------------------------------------- C20

(* C20: when no path handler matches and the resolved entry lacks S_IROTH,  *)
(* uh_file_request answers 403 and nothing else, for every method and every *)
(* combination of conditional headers: the file is never opened, no         *)
(* precondition is evaluated, no 200, 304 or 412 is written, and no file    *)
(* bytes and no directory listing are enqueued.                             *)
C20_ForbiddenOnly ==
    (req.got /\ ~pi.st.oread) =>
        /\ cl.status = <<403>> /\ cl.done = 1
        /\ cl.opens = 0 /\ cl.fd = 0 /\ ~cl.write_cb
        /\ cl.log = <<"file_request">>
        /\ cl.body = <<>> /\ ~cl.listing /\ cl.entries = <<>>

(* A GET of the unreadable file with If-None-Match naming its tag and an    *)
(* If-Modified-Since date, open() able to succeed: 403.                     *)
C20_Witness ==
    /\ req.got /\ ~pi.st.oread /\ pi.st.type = "reg"
    /\ req.method = "GET" /\ req.openok
    /\ req.hdr.inm.present /\ req.hdr.inm.val = Tag(pi.st, tags.ptr)
    /\ req.hdr.ims.present /\ req.hdr.ims.valid
    /\ cl.status = <<403>>

\* The same for a directory others may not read, listings enabled.
C20_WitnessDirectory ==
    /\ req.got /\ ~pi.st.oread /\ pi.st.type = "dir" /\ ~conf.no_dirlists
    /\ cl.status = <<403>>

====
